---------------------------- MODULE Spec2Model ----------------------------
(***************************************************************************)
(* The feature-gated binary patch engine of crates/aoc-userpatch           *)
(* (src/crates/aoc-userpatch/src/patch.rs): the hex codec, the patch       *)
(* applicator, Feature::enable, configure_features and install_into.      *)
(*                                                                         *)
(* A Rust &str is modelled as a sequence of one-character strings, a       *)
(* Vec<u8> / &[u8] as a sequence of integers in 0..255 (Rust index i is    *)
(* TLA+ index i + 1), and a panic as a result record with panicked = TRUE. *)
(***************************************************************************)
EXTENDS Integers, Sequences, FiniteSets, TLC

VARIABLES
    FEATURES,       \* the static catalog (include!(.../injections.rs))
    pc,             \* position of install_into's control
    exe_buffer,     \* the caller's source image (&[u8])
    options,        \* install_into's InstallOptions argument
    features,       \* let features = configure_features(options)
    bigger_buffer,  \* let mut bigger_buffer
    fi,             \* position of `for feature in features.iter()`
    pi,             \* position of `for Injection(addr, patch) in patches.iter()`
    patch,          \* let patch = decode_hex(&patch)
    addr,           \* let mut addr = *addr as usize
    warnings,       \* eprintln!("WARNING ...") lines printed for this injection
    result,         \* what install_into returned to its caller
    panic,          \* the panic message that ended the call, if any
    unit_args,      \* a direct call of one function: its name and arguments
    unit_ret        \* ... and what it returned

vars == <<FEATURES, pc, exe_buffer, options, features, bigger_buffer, fi, pi,
          patch, addr, warnings, result, panic, unit_args, unit_ret>>

-----------------------------------------------------------------------------
(* Bounds of the model. *)

\* Length of the destination buffer: stands for 3072 * 1024 (patch.rs:116),
\* scaled down so that a buffer is a sequence TLC can hold.
TargetSize == 2

\* Longest catalog.
MaxFeatures == 2

\* Longest injection list of one feature.
MaxPatches == 2

\* Longest string handed to decode_hex directly.
MaxHexLen == 4

\* Longest buffer and longest patch handed to apply_patch directly.
MaxBufferLen == 3

MaxPatchLen == 2

-----------------------------------------------------------------------------
(* Results of calls that may panic. *)

Ok(v) == [panicked |-> FALSE, value |-> v]

Panicked(m) == [panicked |-> TRUE, msg |-> m]

NoPanic == "none"

NoResult == [returned |-> FALSE]

Returned(buf) == [returned |-> TRUE, buffer |-> buf]

RECURSIVE SeqsUpTo(_, _)
\* All sequences over S of length at most n.
SeqsUpTo(S, n) ==
    IF n = 0 THEN {<<>>}
    ELSE LET shorter == SeqsUpTo(S, n - 1)
         IN  shorter \cup {Append(s, x) : s \in {t \in shorter : Len(t) = n - 1}, x \in S}

Zeros(n) == [i \in 1..n |-> 0]

-----------------------------------------------------------------------------
(* Feature, Injection. *)

Feature(name, optional, affects_sync, enabled_, patches) ==
    [name |-> name, optional |-> optional, affects_sync |-> affects_sync,
     enabled |-> enabled_, patches |-> patches]

Injection(address, hexa) == <<address, hexa>>

\* fn assert_optional(&self): TRUE when the assertion passes.
assert_optional(self) == self.optional

\* pub fn enabled(&self) -> bool
enabled(self) == self.enabled

\* A panic inside a method: the message, and the receiver as the panic left it.
PanickedAt(m, self) == [panicked |-> TRUE, msg |-> m, value |-> self]

\* A faulty variant of enable: the assertion is skipped when nothing would change.
enable_unless_same(self, enabled_) ==
    IF assert_optional(self) \/ enabled_ = self.enabled
    THEN Ok([self EXCEPT !.enabled = enabled_])
    ELSE PanickedAt("cannot toggle non-optional feature", self)

\* pub fn enable(&mut self, enabled: bool): the feature afterwards, or the panic
\* of assert_optional, which comes before the assignment.
enable(self, enabled_) ==
    IF assert_optional(self)
    THEN Ok([self EXCEPT !.enabled = enabled_])
    ELSE PanickedAt("cannot toggle non-optional feature", self)

-----------------------------------------------------------------------------
(* Hex codec. *)

DigitChars == <<"0", "1", "2", "3", "4", "5", "6", "7", "8", "9">>

UpperChars == <<"A", "B", "C", "D", "E", "F", "G">>

LowerChars == <<"a", "b", "c", "d", "e", "f", "g">>

\* Every character the model hands to decode_hex; "G", "g" and " " are not
\* hexadecimal digits.
Chars == {DigitChars[i] : i \in 1..Len(DigitChars)}
         \cup {UpperChars[i] : i \in 1..Len(UpperChars)}
         \cup {LowerChars[i] : i \in 1..Len(LowerChars)}
         \cup {" "}

\* char::from(c) as u32: the character's code point.
CodePoint(c) ==
    IF \E i \in 1..Len(DigitChars) : DigitChars[i] = c
    THEN 47 + (CHOOSE i \in 1..Len(DigitChars) : DigitChars[i] = c)
    ELSE IF \E i \in 1..Len(UpperChars) : UpperChars[i] = c
    THEN 64 + (CHOOSE i \in 1..Len(UpperChars) : UpperChars[i] = c)
    ELSE IF \E i \in 1..Len(LowerChars) : LowerChars[i] = c
    THEN 96 + (CHOOSE i \in 1..Len(LowerChars) : LowerChars[i] = c)
    ELSE 32

\* char::to_digit(16): Some(digit) for '0'..='9', 'a'..='f', 'A'..='F', else None.
to_digit(c) ==
    LET code == CodePoint(c)
    IN  IF code >= 48 /\ code <= 57 THEN [some |-> TRUE, digit |-> code - 48]
        ELSE IF code >= 97 /\ code <= 102 THEN [some |-> TRUE, digit |-> code - 97 + 10]
        ELSE IF code >= 65 /\ code <= 70 THEN [some |-> TRUE, digit |-> code - 65 + 10]
        ELSE [some |-> FALSE]

\* A faulty variant of decode_hex: the two nibbles of a byte are swapped.
decode_hex_swapped(hexa) ==
    IF Len(hexa) % 2 # 0
    THEN Panicked("hex string must have length divisible by 2")
    ELSE IF \E i \in 1..Len(hexa) : ~to_digit(hexa[i]).some
    THEN Panicked("expected only hexadecimal characters")
    ELSE Ok([i \in 1..(Len(hexa) \div 2) |->
                (to_digit(hexa[2 * i]).digit * 16 + to_digit(hexa[2 * i - 1]).digit) % 256])

\* fn decode_hex(hexa: &str) -> Vec<u8>
decode_hex(hexa) ==
    IF Len(hexa) % 2 # 0
    THEN Panicked("hex string must have length divisible by 2")
    ELSE IF \E i \in 1..Len(hexa) : ~to_digit(hexa[i]).some
    THEN Panicked("expected only hexadecimal characters")
    ELSE Ok([i \in 1..(Len(hexa) \div 2) |->
                (to_digit(hexa[2 * i - 1]).digit * 16 + to_digit(hexa[2 * i]).digit) % 256])

-----------------------------------------------------------------------------
(* Patch applicator. *)

\* A faulty variant of apply_patch: a patch that does not fit is cut at the buffer's end.
apply_patch_truncating(buffer, offset, patch_) ==
    LET end == offset + Len(patch_)
    IN  Ok([i \in 1..Len(buffer) |->
              IF i - 1 >= offset /\ i - 1 < end THEN patch_[i - offset] ELSE buffer[i]])

\* A faulty variant of apply_patch: the copy starts one byte late.
apply_patch_shifted(buffer, offset, patch_) ==
    LET end == offset + Len(patch_)
    IN  IF end > Len(buffer)
        THEN Panicked("range end index out of range for slice")
        ELSE Ok([i \in 1..Len(buffer) |->
                   IF i - 1 > offset /\ i - 1 < end THEN patch_[i - offset] ELSE buffer[i]])

\* fn apply_patch(buffer: &mut [u8], offset: usize, patch: &[u8]): the buffer
\* afterwards; buffer[offset..end] panics when end exceeds the buffer's length.
apply_patch(buffer, offset, patch_) ==
    LET end == offset + Len(patch_)
    IN  IF end > Len(buffer)
        THEN Panicked("range end index out of range for slice")
        ELSE Ok([i \in 1..Len(buffer) |->
                   IF i - 1 >= offset /\ i - 1 < end THEN patch_[i - offset] ELSE buffer[i]])

-----------------------------------------------------------------------------
(* Feature resolver. *)

\* The fields of InstallOptions that configure_features reads.
OptionFields ==
    {"widescreen_command_bar", "windowed_mode", "upnp", "alternate_red",
     "alternate_purple", "alternate_gray", "extend_population_caps",
     "replace_snow_with_grass", "water_animation", "precision_scrolling",
     "shift_group_append", "keydown_hotkeys", "savegame_format", "multiple_queue",
     "original_patrol_delay", "water_movement", "weather_system", "custom_terrains",
     "terrain_underwater", "numeric_age_display"}

\* InstallOptions::bare(): every toggle off.
bare == [o \in OptionFields |-> FALSE]

\* A faulty variant of match_name: the weather toggle is taken directly, not negated.
match_name_weather_direct(f, opts) ==
    CASE f.name = "Widescreen interface style" -> opts.widescreen_command_bar
      [] f.name = "Windowed mode support" -> opts.windowed_mode
      [] f.name = "Port forwarding support" -> opts.upnp
      [] f.name = "Darken mini-map red" -> opts.alternate_red
      [] f.name = "Darken mini-map purple" -> opts.alternate_purple
      [] f.name = "Darken mini-map grey" -> opts.alternate_gray
      [] f.name = "Population caps to 1000" -> opts.extend_population_caps
      [] f.name = "Snow/ice terrain removal" -> opts.replace_snow_with_grass
      [] f.name = "Enable water animation" -> opts.water_animation
      [] f.name = "Precision scrolling system" -> opts.precision_scrolling
      [] f.name = "Shift group appending" -> opts.shift_group_append
      [] f.name = "Keydown object hotkeys" -> opts.keydown_hotkeys
      [] f.name = "New save filename format" -> opts.savegame_format
      [] f.name = "Multiple building queue" -> opts.multiple_queue
      [] f.name = "Original patrol default" -> opts.original_patrol_delay
      [] f.name = "Disable water movement" -> ~opts.water_movement
      [] f.name = "Disable weather system" -> opts.weather_system
      [] f.name = "Disable custom terrains" -> ~opts.custom_terrains
      [] f.name = "Disable terrain underwater" -> ~opts.terrain_underwater
      [] f.name = "Numeric age display" -> opts.numeric_age_display
      [] OTHER -> enabled(f)

\* The match of configure_features: the value handed to f.enable.
match_name(f, opts) ==
    CASE f.name = "Widescreen interface style" -> opts.widescreen_command_bar
      [] f.name = "Windowed mode support" -> opts.windowed_mode
      [] f.name = "Port forwarding support" -> opts.upnp
      [] f.name = "Darken mini-map red" -> opts.alternate_red
      [] f.name = "Darken mini-map purple" -> opts.alternate_purple
      [] f.name = "Darken mini-map grey" -> opts.alternate_gray
      [] f.name = "Population caps to 1000" -> opts.extend_population_caps
      [] f.name = "Snow/ice terrain removal" -> opts.replace_snow_with_grass
      [] f.name = "Enable water animation" -> opts.water_animation
      [] f.name = "Precision scrolling system" -> opts.precision_scrolling
      [] f.name = "Shift group appending" -> opts.shift_group_append
      [] f.name = "Keydown object hotkeys" -> opts.keydown_hotkeys
      [] f.name = "New save filename format" -> opts.savegame_format
      [] f.name = "Multiple building queue" -> opts.multiple_queue
      [] f.name = "Original patrol default" -> opts.original_patrol_delay
      [] f.name = "Disable water movement" -> ~opts.water_movement
      [] f.name = "Disable weather system" -> ~opts.weather_system
      [] f.name = "Disable custom terrains" -> ~opts.custom_terrains
      [] f.name = "Disable terrain underwater" -> ~opts.terrain_underwater
      [] f.name = "Numeric age display" -> opts.numeric_age_display
      [] OTHER -> enabled(f)

\* fn configure_features(options: InstallOptions) -> Vec<Feature>: every catalog
\* feature cloned and passed through enable, in order; a panicking enable ends it.
configure_features(opts) ==
    LET mapped == [i \in 1..Len(FEATURES) |->
                      enable(FEATURES[i], match_name(FEATURES[i], opts))]
    IN  IF \E i \in 1..Len(FEATURES) : mapped[i].panicked
        THEN Panicked("cannot toggle non-optional feature")
        ELSE Ok([i \in 1..Len(FEATURES) |-> mapped[i].value])

-----------------------------------------------------------------------------
(* Install orchestrator: install_into, one action per step of its body. *)

\* A faulty variant of to_vec_extend: the copy is not zero-filled.
to_vec_only(exe) == exe

\* exe_buffer.to_vec() extended with (3072 * 1024) - exe_buffer.len() zeros.
to_vec_extend(exe) == exe \o Zeros(TargetSize - Len(exe))

\* A faulty variant of exceeds: an address equal to the length is corrected too.
exceeds_or_equals(address, length) == address >= length

\* The loop condition `addr > bigger_buffer.len()`.
exceeds(address, length) == address > length

\* A faulty variant of skipped: no feature is skipped.
skipped_never(feature) == FALSE

\* `if !feature.enabled() { continue; }`
skipped(feature) == ~enabled(feature)

\* The caller invokes install_into(exe, opts).
Call(exe, opts) ==
    /\ pc = "idle"
    /\ exe_buffer' = exe
    /\ options' = opts
    /\ pc' = "configure"
    /\ result' = NoResult
    /\ panic' = NoPanic
    /\ UNCHANGED <<FEATURES, features, bigger_buffer, fi, pi, patch, addr, warnings,
                   unit_args, unit_ret>>

\* A faulty variant of Configure: the catalog itself is resolved in place.
ConfigureInPlace ==
    /\ pc = "configure"
    /\ LET r == configure_features(options)
       IN  IF r.panicked
           THEN /\ pc' = "panic"
                /\ panic' = r.msg
                /\ UNCHANGED <<features, FEATURES>>
           ELSE /\ features' = r.value
                /\ FEATURES' = r.value
                /\ pc' = "alloc"
                /\ UNCHANGED panic
    /\ UNCHANGED <<exe_buffer, options, bigger_buffer, fi, pi, patch, addr,
                   warnings, result, unit_args, unit_ret>>

\* let features = configure_features(options);
Configure ==
    /\ pc = "configure"
    /\ LET r == configure_features(options)
       IN  IF r.panicked
           THEN /\ pc' = "panic"
                /\ panic' = r.msg
                /\ UNCHANGED features
           ELSE /\ features' = r.value
                /\ pc' = "alloc"
                /\ UNCHANGED panic
    /\ UNCHANGED <<FEATURES, exe_buffer, options, bigger_buffer, fi, pi, patch, addr,
                   warnings, result, unit_args, unit_ret>>

\* let mut bigger_buffer = exe_buffer.to_vec(); bigger_buffer.extend(...): for an
\* oversized image the subtraction (3072 * 1024) - exe_buffer.len() panics, and
\* where overflow checks are off the wrapped length cannot be allocated: the
\* call ends either way.
Alloc ==
    /\ pc = "alloc"
    /\ IF Len(exe_buffer) > TargetSize
       THEN /\ pc' = "panic"
            /\ panic' = "attempt to subtract with overflow"
            /\ UNCHANGED <<bigger_buffer, fi>>
       ELSE /\ bigger_buffer' = to_vec_extend(exe_buffer)
            /\ fi' = 1
            /\ pc' = "feature"
            /\ UNCHANGED panic
    /\ UNCHANGED <<FEATURES, exe_buffer, options, features, pi, patch, addr, warnings,
                   result, unit_args, unit_ret>>

\* for feature in features.iter() { if !feature.enabled() { continue; } ... }
\* and, when the iteration is over, the return of bigger_buffer.
NextFeature ==
    /\ pc = "feature"
    /\ IF fi > Len(features)
       THEN /\ pc' = "done"
            /\ result' = Returned(bigger_buffer)
            /\ UNCHANGED <<fi, pi>>
       ELSE IF skipped(features[fi])
       THEN /\ fi' = fi + 1
            /\ UNCHANGED <<pc, pi, result>>
       ELSE /\ pi' = 1
            /\ pc' = "injection"
            /\ UNCHANGED <<fi, result>>
    /\ UNCHANGED <<FEATURES, exe_buffer, options, features, bigger_buffer, patch, addr,
                   warnings, panic, unit_args, unit_ret>>

\* A faulty variant of NextInjection: a feature's injections are taken last first.
NextInjectionReversed ==
    /\ pc = "injection"
    /\ IF pi > Len(features[fi].patches)
       THEN /\ fi' = fi + 1
            /\ pc' = "feature"
            /\ UNCHANGED <<patch, addr, warnings, panic>>
       ELSE LET inj == features[fi].patches[Len(features[fi].patches) + 1 - pi]
                decoded == decode_hex(inj[2])
            IN  IF decoded.panicked
                THEN /\ pc' = "panic"
                     /\ panic' = decoded.msg
                     /\ UNCHANGED <<fi, patch, addr, warnings>>
                ELSE /\ patch' = decoded.value
                     /\ addr' = inj[1]
                     /\ warnings' = 0
                     /\ pc' = "wrap"
                     /\ UNCHANGED <<fi, panic>>
    /\ UNCHANGED <<FEATURES, exe_buffer, options, features, bigger_buffer, pi, result,
                   unit_args, unit_ret>>

\* for Injection(addr, patch) in patches.iter() {
\*     let patch = decode_hex(&patch); let mut addr = *addr as usize;
NextInjection ==
    /\ pc = "injection"
    /\ IF pi > Len(features[fi].patches)
       THEN /\ fi' = fi + 1
            /\ pc' = "feature"
            /\ UNCHANGED <<patch, addr, warnings, panic>>
       ELSE LET inj == features[fi].patches[pi]
                decoded == decode_hex(inj[2])
            IN  IF decoded.panicked
                THEN /\ pc' = "panic"
                     /\ panic' = decoded.msg
                     /\ UNCHANGED <<fi, patch, addr, warnings>>
                ELSE /\ patch' = decoded.value
                     /\ addr' = inj[1]
                     /\ warnings' = 0
                     /\ pc' = "wrap"
                     /\ UNCHANGED <<fi, panic>>
    /\ UNCHANGED <<FEATURES, exe_buffer, options, features, bigger_buffer, pi, result,
                   unit_args, unit_ret>>

\* while addr > bigger_buffer.len() { eprintln!(...); addr -= bigger_buffer.len() }
\* one evaluation of the condition, and one pass of the body when it holds.
WrapStep ==
    /\ pc = "wrap"
    /\ IF exceeds(addr, Len(bigger_buffer))
       THEN /\ warnings' = warnings + 1
            /\ addr' = addr - Len(bigger_buffer)
            /\ UNCHANGED pc
       ELSE /\ pc' = "apply"
            /\ UNCHANGED <<addr, warnings>>
    /\ UNCHANGED <<FEATURES, exe_buffer, options, features, bigger_buffer, fi, pi, patch,
                   result, panic, unit_args, unit_ret>>

\* apply_patch(&mut bigger_buffer, addr, &patch);
Apply ==
    /\ pc = "apply"
    /\ LET r == apply_patch(bigger_buffer, addr, patch)
       IN  IF r.panicked
           THEN /\ pc' = "panic"
                /\ panic' = r.msg
                /\ UNCHANGED <<bigger_buffer, pi>>
           ELSE /\ bigger_buffer' = r.value
                /\ pi' = pi + 1
                /\ pc' = "injection"
                /\ UNCHANGED panic
    /\ UNCHANGED <<FEATURES, exe_buffer, options, features, fi, patch, addr, warnings,
                   result, unit_args, unit_ret>>

\* The call is over (a returned buffer, or a panic that unwound it): its locals
\* are gone; the caller still holds its source image.
Return ==
    /\ pc \in {"done", "panic"}
    /\ pc' = "idle"
    /\ options' = bare
    /\ features' = <<>>
    /\ bigger_buffer' = <<>>
    /\ fi' = 0
    /\ pi' = 0
    /\ patch' = <<>>
    /\ addr' = 0
    /\ warnings' = 0
    /\ result' = NoResult
    /\ panic' = NoPanic
    /\ UNCHANGED <<FEATURES, exe_buffer, unit_args, unit_ret>>

-----------------------------------------------------------------------------
(* Inputs of install_into: catalogs, source images, configurations. *)

DirectName == "Windowed mode support"

InvertedName == "Disable water movement"

UnmappedName == "Unmapped feature"

InstallNames == {DirectName, InvertedName, UnmappedName}

\* "AB", "0102", and the payloads decode_hex or apply_patch must cope with.
HexAB == <<"A", "B">>

Hex0102 == <<"0", "1", "0", "2">>

HexEmpty == <<>>

HexOdd == <<"A">>

HexNotHex == <<"0", "g">>

\* One injection per name, so that the feature that wrote a byte can be told.
Marker(name) ==
    CASE name = DirectName -> Injection(0, <<"D", "0">>)
      [] name = InvertedName -> Injection(TargetSize - 1, <<"0", "E">>)
      [] OTHER -> Injection(0, <<"0", "a", "0", "b">>)

DistinctNames(catalog) ==
    \A i, j \in 1..Len(catalog) : catalog[i].name = catalog[j].name => i = j

\* Catalogs that vary which features there are, optional or not, on or off.
HeaderFeatures ==
    {Feature(n, o, FALSE, e, <<Marker(n)>>) : n \in InstallNames, o \in BOOLEAN, e \in BOOLEAN}

HeaderCatalogs == {c \in SeqsUpTo(HeaderFeatures, MaxFeatures) : DistinctNames(c)}

\* Raw offsets up to twice the buffer's length and beyond.
Offsets == 0..(2 * TargetSize + 1)

Injections == {Injection(a, h) : a \in Offsets, h \in {HexAB, Hex0102}}

\* Catalogs of one enabled feature that vary its injections.
InjectionCatalogs ==
    {<<Feature(UnmappedName, TRUE, TRUE, TRUE, p)>> : p \in SeqsUpTo(Injections, MaxPatches)}

EdgeInjections ==
    {Injection(0, HexEmpty), Injection(TargetSize, HexEmpty), Injection(TargetSize + 1, HexEmpty),
     Injection(0, HexOdd), Injection(0, HexNotHex)}

EdgePatches ==
    {<<e>> : e \in EdgeInjections}
    \cup {<<e, Injection(0, HexAB)>> : e \in EdgeInjections}
    \cup {<<Injection(0, HexAB), e>> : e \in EdgeInjections}

\* Catalogs whose payloads are empty or malformed, in a feature that is on by
\* default and in one a toggle switches.
EdgeCatalogs ==
    {<<Feature(n, TRUE, FALSE, TRUE, p)>> : n \in {DirectName, UnmappedName}, p \in EdgePatches}

Catalogs == HeaderCatalogs \cup InjectionCatalogs \cup EdgeCatalogs

\* The source image of length n: byte i is 16 + i, never zero.
SourceImage(n) == [i \in 1..n |-> 16 + i]

\* Source images up to one byte longer than the target size.
Images == {SourceImage(n) : n \in 0..(TargetSize + 1)}

InstallOptionSets ==
    {[bare EXCEPT !.windowed_mode = w, !.water_movement = m] : w \in BOOLEAN, m \in BOOLEAN}

Init ==
    /\ FEATURES \in Catalogs
    /\ pc = "idle"
    /\ exe_buffer = <<>>
    /\ options = bare
    /\ features = <<>>
    /\ bigger_buffer = <<>>
    /\ fi = 0
    /\ pi = 0
    /\ patch = <<>>
    /\ addr = 0
    /\ warnings = 0
    /\ result = NoResult
    /\ panic = NoPanic
    /\ unit_args = [fn |-> "none"]
    /\ unit_ret = [called |-> FALSE]

CallInstall == \E exe \in Images, opts \in InstallOptionSets : Call(exe, opts)

Next ==
    \/ CallInstall
    \/ Configure
    \/ Alloc
    \/ NextFeature
    \/ NextInjection
    \/ WrapStep
    \/ Apply
    \/ Return

Spec == Init /\ [][Next]_vars

-----------------------------------------------------------------------------
(* Direct calls of decode_hex, apply_patch, Feature::enable and                *)
(* configure_features, as the tests of patch.rs call them: one call a run.    *)

\* The names the match of configure_features knows.
MatchedNames ==
    {"Widescreen interface style", "Windowed mode support", "Port forwarding support",
     "Darken mini-map red", "Darken mini-map purple", "Darken mini-map grey",
     "Population caps to 1000", "Snow/ice terrain removal", "Enable water animation",
     "Precision scrolling system", "Shift group appending", "Keydown object hotkeys",
     "New save filename format", "Multiple building queue", "Original patrol default",
     "Disable water movement", "Disable weather system", "Disable custom terrains",
     "Disable terrain underwater", "Numeric age display"}

ProbeFeatures ==
    {Feature(n, o, s, e, <<>>) :
        n \in MatchedNames \cup {UnmappedName}, o \in BOOLEAN, s \in BOOLEAN, e \in BOOLEAN}

\* Features that come before the probed one in a catalog; both resolve.
PrefixFeatures ==
    {Feature("Unmapped prefix", TRUE, FALSE, TRUE, <<>>),
     Feature("Numeric age display", TRUE, FALSE, FALSE, <<>>)}

ProbeCatalogs ==
    {c \in {prefix \o <<f>> : prefix \in SeqsUpTo(PrefixFeatures, MaxFeatures - 1),
                              f \in ProbeFeatures} : DistinctNames(c)}

\* Every toggle off, every toggle on, and each toggle alone on or alone off.
ConfigOptionSets ==
    {[o \in OptionFields |-> v] : v \in BOOLEAN}
    \cup {[o \in OptionFields |-> IF o = t THEN v ELSE ~v] : t \in OptionFields, v \in BOOLEAN}

SmallChars == {"0", "1", "9", "a", "c", "C", "F", "g"}

HexInputs == SeqsUpTo(Chars, 2) \cup SeqsUpTo(SmallChars, MaxHexLen)

BufferBytes == {0, 1}

PatchBytes == {1, 2}

UnitCalls ==
    {[fn |-> "decode_hex", hexa |-> h] : h \in HexInputs}
    \cup {[fn |-> "apply_patch", buffer |-> b, offset |-> o, patch |-> p] :
            b \in SeqsUpTo(BufferBytes, MaxBufferLen), o \in 0..(MaxBufferLen + 1),
            p \in SeqsUpTo(PatchBytes, MaxPatchLen)}
    \cup {[fn |-> "enable", self |-> f, enabled |-> v] : f \in ProbeFeatures, v \in BOOLEAN}
    \cup {[fn |-> "configure_features", options |-> o] : o \in ConfigOptionSets}

InitUnit ==
    /\ unit_args \in UnitCalls
    /\ FEATURES \in (IF unit_args.fn = "configure_features" THEN ProbeCatalogs ELSE {<<>>})
    /\ unit_ret = [called |-> FALSE]
    /\ pc = "unit"
    /\ exe_buffer = <<>>
    /\ options = bare
    /\ features = <<>>
    /\ bigger_buffer = <<>>
    /\ fi = 0
    /\ pi = 0
    /\ patch = <<>>
    /\ addr = 0
    /\ warnings = 0
    /\ result = NoResult
    /\ panic = NoPanic

UnitReturn(fn, ret) ==
    /\ pc = "unit"
    /\ unit_args.fn = fn
    /\ ~unit_ret.called
    /\ unit_ret' = [called |-> TRUE, ret |-> ret]
    /\ UNCHANGED <<FEATURES, pc, exe_buffer, options, features, bigger_buffer, fi, pi,
                   patch, addr, warnings, result, panic, unit_args>>

CallDecodeHex == UnitReturn("decode_hex", decode_hex(unit_args.hexa))

CallApplyPatch ==
    UnitReturn("apply_patch", apply_patch(unit_args.buffer, unit_args.offset, unit_args.patch))

CallEnable == UnitReturn("enable", enable(unit_args.self, unit_args.enabled))

CallConfigureFeatures ==
    UnitReturn("configure_features", configure_features(unit_args.options))

NextUnit ==
    \/ CallDecodeHex
    \/ CallApplyPatch
    \/ CallEnable
    \/ CallConfigureFeatures

SpecUnit == InitUnit /\ [][NextUnit]_vars

-----------------------------------------------------------------------------
(* What the claims speak of. *)

InvertedNames ==
    {"Disable water movement", "Disable weather system", "Disable custom terrains",
     "Disable terrain underwater"}

\* The configuration toggle a matched feature name stands for.
ToggleField(name) ==
    CASE name = "Widescreen interface style" -> "widescreen_command_bar"
      [] name = "Windowed mode support" -> "windowed_mode"
      [] name = "Port forwarding support" -> "upnp"
      [] name = "Darken mini-map red" -> "alternate_red"
      [] name = "Darken mini-map purple" -> "alternate_purple"
      [] name = "Darken mini-map grey" -> "alternate_gray"
      [] name = "Population caps to 1000" -> "extend_population_caps"
      [] name = "Snow/ice terrain removal" -> "replace_snow_with_grass"
      [] name = "Enable water animation" -> "water_animation"
      [] name = "Precision scrolling system" -> "precision_scrolling"
      [] name = "Shift group appending" -> "shift_group_append"
      [] name = "Keydown object hotkeys" -> "keydown_hotkeys"
      [] name = "New save filename format" -> "savegame_format"
      [] name = "Multiple building queue" -> "multiple_queue"
      [] name = "Original patrol default" -> "original_patrol_delay"
      [] name = "Disable water movement" -> "water_movement"
      [] name = "Disable weather system" -> "weather_system"
      [] name = "Disable custom terrains" -> "custom_terrains"
      [] name = "Disable terrain underwater" -> "terrain_underwater"
      [] name = "Numeric age display" -> "numeric_age_display"

\* The zero-padded copy of a source image.
Padded(exe) == [k \in 1..TargetSize |-> IF k <= Len(exe) THEN exe[k] ELSE 0]

\* The address a raw offset r is corrected to in a buffer of length L > 0.
EffectiveAddress(r, L) == IF r <= L THEN r ELSE ((r - 1) % L) + 1

\* Byte k (counted from 1) lies in the range an injection of feature f writes.
Covers(f, k) ==
    \E j \in 1..Len(f.patches) :
        LET e == EffectiveAddress(f.patches[j][1], TargetSize)
        IN  k - 1 >= e /\ k - 1 < e + (Len(f.patches[j][2]) \div 2)

Called(fn) == unit_args.fn = fn /\ unit_ret.called

InBody == pc \in {"feature", "injection", "wrap", "apply", "done"}

Resolved == pc \in {"alloc", "feature", "injection", "wrap", "apply", "done"}

\* C1: once install_into has built its destination buffer, the buffer's length is
\* the fixed target size at every step of the injection loop, and so is the
\* length of the buffer it returns.
C1_FixedSize ==
    /\ InBody => Len(bigger_buffer) = TargetSize
    /\ pc = "done" => result.returned /\ Len(result.buffer) = TargetSize

\* C1's case: a call with a shorter source image returned a patched buffer.
C1_Witness ==
    /\ pc = "done"
    /\ Len(exe_buffer) < TargetSize
    /\ result.buffer # Padded(exe_buffer)
    /\ Len(result.buffer) = TargetSize

\* C2: in a catalog whose matched features are all optional, resolution completes,
\* and every feature whose name has no toggle keeps its catalog default, optional
\* or not.
C2_UnmappedKeepsDefault ==
    (/\ Called("configure_features")
     /\ \A i \in 1..Len(FEATURES) : FEATURES[i].name \in MatchedNames => FEATURES[i].optional)
    => /\ ~unit_ret.ret.panicked
       /\ \A i \in 1..Len(FEATURES) :
            FEATURES[i].name \notin MatchedNames
            => unit_ret.ret.value[i].enabled = FEATURES[i].enabled

\* C3: every resolved feature whose name is matched is enabled exactly when its
\* toggle is set, and for the four inverted names exactly when it is not;
\* the catalog default plays no part.
C3_MatchedFollowsToggle ==
    (Called("configure_features") /\ ~unit_ret.ret.panicked)
    => \A i \in 1..Len(FEATURES) :
          FEATURES[i].name \in MatchedNames
          => unit_ret.ret.value[i].enabled =
                (IF FEATURES[i].name \in InvertedNames
                 THEN ~unit_args.options[ToggleField(FEATURES[i].name)]
                 ELSE unit_args.options[ToggleField(FEATURES[i].name)])

\* C3's case: an inverted feature that is on in the catalog was resolved off.
C3_Witness ==
    /\ Called("configure_features")
    /\ ~unit_ret.ret.panicked
    /\ \E i \in 1..Len(FEATURES) :
          /\ FEATURES[i].name \in InvertedNames
          /\ FEATURES[i].enabled
          /\ ~unit_ret.ret.value[i].enabled
          /\ unit_args.options[ToggleField(FEATURES[i].name)]

\* C4 as claimed: under the bare configuration every optional feature is resolved
\* as disabled, and every byte of the returned buffer that no injection of a
\* non-optional feature covers is the byte of the zero-padded source image.
C4_BareDisablesEveryOptional ==
    (options = bare /\ pc = "done")
    => /\ \A i \in 1..Len(features) : features[i].optional => ~features[i].enabled
       /\ \A k \in 1..TargetSize :
            (\A i \in 1..Len(features) : features[i].optional \/ ~Covers(features[i], k))
            => result.buffer[k] = Padded(exe_buffer)[k]

\* C4 amended: under the bare configuration a resolved optional feature is
\* disabled when its name stands for a direct toggle, enabled when it is one
\* of the four inverted names, and at its catalog default when its name is not
\* matched; every byte of the returned buffer that no injection of a feature
\* resolved as enabled covers is the byte of the zero-padded source image.
C4_BareDisablesDirect ==
    (options = bare /\ Resolved)
    => /\ \A i \in 1..Len(features) :
            features[i].optional
            => features[i].enabled =
                  (IF features[i].name \in MatchedNames
                   THEN features[i].name \in InvertedNames
                   ELSE FEATURES[i].enabled)
       /\ pc = "done"
          => \A k \in 1..TargetSize :
                (\A i \in 1..Len(features) : ~features[i].enabled \/ ~Covers(features[i], k))
                => result.buffer[k] = Padded(exe_buffer)[k]

\* C4's case: under the bare configuration a direct feature that is on in the
\* catalog was resolved off, and the byte its injection names is the source's.
C4_Witness ==
    /\ options = bare
    /\ pc = "done"
    /\ Len(exe_buffer) > 0
    /\ \E i \in 1..Len(features) :
          /\ features[i].name = DirectName
          /\ FEATURES[i].enabled
          /\ ~features[i].enabled
          /\ Covers(features[i], 1)
    /\ result.buffer[1] = exe_buffer[1]

\* C5: a patch that fits leaves the buffer's length as it was, the patch's bytes
\* at offset .. offset + len(patch), and every other byte as it was.
C5_ApplyPatchFrame ==
    (/\ Called("apply_patch")
     /\ unit_args.offset + Len(unit_args.patch) <= Len(unit_args.buffer))
    => /\ ~unit_ret.ret.panicked
       /\ Len(unit_ret.ret.value) = Len(unit_args.buffer)
       /\ \A i \in 0..(Len(unit_args.patch) - 1) :
            unit_ret.ret.value[unit_args.offset + i + 1] = unit_args.patch[i + 1]
       /\ \A j \in 0..(Len(unit_args.buffer) - 1) :
            (j < unit_args.offset \/ j >= unit_args.offset + Len(unit_args.patch))
            => unit_ret.ret.value[j + 1] = unit_args.buffer[j + 1]

\* C5's case: a patch was written strictly inside a buffer and changed it.
C5_Witness ==
    /\ Called("apply_patch")
    /\ unit_args.offset > 0
    /\ Len(unit_args.patch) > 0
    /\ unit_args.offset + Len(unit_args.patch) < Len(unit_args.buffer)
    /\ ~unit_ret.ret.panicked
    /\ unit_ret.ret.value # unit_args.buffer

\* C6: no step of install_into, failing or not, changes the catalog, and from
\* the call to its end the caller's source image stays as it was passed.
C6_CatalogAndImageUntouched ==
    [][FEATURES' = FEATURES /\ (pc # "idle" => exe_buffer' = exe_buffer)]_vars

\* C6's case: a call resolved the features differently from the catalog and
\* returned a buffer that differs from the source image it was given.
C6_Witness ==
    /\ pc = "done"
    /\ features # FEATURES
    /\ Len(exe_buffer) = TargetSize
    /\ result.buffer # exe_buffer

\* C7: enable(v) on a non-optional feature panics for either v and leaves the
\* feature as it was; on an optional feature it sets enabled to v, nothing else.
C7_EnableOnlyOptional ==
    Called("enable")
    => IF unit_args.self.optional
       THEN /\ ~unit_ret.ret.panicked
            /\ unit_ret.ret.value = [unit_args.self EXCEPT !.enabled = unit_args.enabled]
       ELSE /\ unit_ret.ret.panicked
            /\ unit_ret.ret.value = unit_args.self

\* C7's case: enable was called on a non-optional feature with the value it has.
C7_Witness ==
    /\ Called("enable")
    /\ ~unit_args.self.optional
    /\ unit_args.enabled = unit_args.self.enabled
    /\ unit_ret.ret.panicked

HexDigitsLower ==
    <<"0", "1", "2", "3", "4", "5", "6", "7", "8", "9", "a", "b", "c", "d", "e", "f">>

HexDigitsUpper ==
    <<"0", "1", "2", "3", "4", "5", "6", "7", "8", "9", "A", "B", "C", "D", "E", "F">>

IsHexDigit(c) == \E v \in 1..16 : HexDigitsLower[v] = c \/ HexDigitsUpper[v] = c

\* The value of a hexadecimal digit, the same for either case.
HexValue(c) == (CHOOSE v \in 1..16 : HexDigitsLower[v] = c \/ HexDigitsUpper[v] = c) - 1

\* C8: an even-length string of hexadecimal digits decodes to len/2 bytes, byte i
\* being 16 * value(text[2i]) + value(text[2i+1]).
C8_DecodeHex ==
    (/\ Called("decode_hex")
     /\ Len(unit_args.hexa) % 2 = 0
     /\ \A i \in 1..Len(unit_args.hexa) : IsHexDigit(unit_args.hexa[i]))
    => /\ ~unit_ret.ret.panicked
       /\ Len(unit_ret.ret.value) * 2 = Len(unit_args.hexa)
       /\ \A i \in 0..(Len(unit_ret.ret.value) - 1) :
            unit_ret.ret.value[i + 1] =
                16 * HexValue(unit_args.hexa[2 * i + 1]) + HexValue(unit_args.hexa[2 * i + 2])

\* C8's case: two bytes were decoded from digits of both cases.
C8_Witness ==
    /\ Called("decode_hex")
    /\ unit_args.hexa = <<"F", "a", "1", "C">>
    /\ ~unit_ret.ret.panicked
    /\ unit_ret.ret.value = <<250, 28>>

\* The raw offset of the injection install_into is at.
RawOffset == features[fi].patches[pi][1]

\* C9, the address: in the correction loop addr is the raw offset less one buffer
\* length per warning; when the loop is left, a raw offset r <= L is used as it
\* is with no warning, and a larger one is r - k*L for the least k >= 1 with
\* r - k*L <= L, with k warnings; the address is at most L and congruent to r.
C9_EffectiveAddress ==
    pc \in {"wrap", "apply"}
    => LET r == RawOffset
           L == Len(bigger_buffer)
       IN  /\ L > 0
           /\ addr = r - warnings * L
           /\ addr >= 0
           /\ \A k \in 0..(warnings - 1) : r - k * L > L
           /\ pc = "apply"
              => /\ addr <= L
                 /\ addr % L = r % L
                 /\ r <= L => (warnings = 0 /\ addr = r)
                 /\ r > L => (warnings >= 1 /\ addr >= 1)

\* C9, termination: every pass of the correction loop prints one warning and
\* makes addr smaller while keeping it positive, so the loop ends.
C9_LoopDescends ==
    (pc = "wrap" /\ pc' = "wrap") => (addr' < addr /\ addr' > 0 /\ warnings' = warnings + 1)

\* C9: the effective address and the warnings of the wraparound correction.
C9_Wraparound == []C9_EffectiveAddress /\ [][C9_LoopDescends]_vars

\* C9's case: an offset beyond twice the buffer's length was corrected twice.
C9_Witness ==
    /\ pc = "apply"
    /\ warnings = 2
    /\ RawOffset = 2 * Len(bigger_buffer) + 1
    /\ addr = 1

\* C10, the failing step: a patch that would end beyond the buffer ends the call
\* in a panic, with the buffer as it was and nothing returned.
C10_OutOfBoundsStep ==
    (pc = "apply" /\ addr + Len(patch) > Len(bigger_buffer))
    => (pc' = "panic" /\ bigger_buffer' = bigger_buffer /\ ~result'.returned)

\* C10, afterwards: a call that panicked only ends: no injection follows, and
\* nothing is returned.
C10_PanicIsFinal ==
    pc = "panic" => (pc' = "idle" /\ ~result.returned /\ ~result'.returned)

\* C10: an injection that does not fit is fatal for the whole install.
C10_OutOfBoundsFatal == [][C10_OutOfBoundsStep]_vars /\ [][C10_PanicIsFinal]_vars

\* C10's case: after a wraparound correction a patch did not fit, the call
\* panicked with the buffer untouched, and a later injection was left unapplied.
C10_Witness ==
    /\ pc = "panic"
    /\ panic = "range end index out of range for slice"
    /\ warnings > 0
    /\ pi < Len(features[fi].patches)
    /\ bigger_buffer = Padded(exe_buffer)
    /\ ~result.returned

\* Injection j of resolved feature i has been applied by now: the feature is
\* enabled and comes before the one the loop is at, or is that one and j comes
\* before the injection the loop is at.
AppliedBefore(i, j) ==
    /\ enabled(features[i])
    /\ \/ i < fi
       \/ i = fi /\ pc \in {"injection", "wrap", "apply"} /\ j < pi

\* Byte k (counted from 1) lies in the range injection j of feature i writes.
CoversAt(i, j, k) ==
    LET e == EffectiveAddress(features[i].patches[j][1], TargetSize)
    IN  k - 1 >= e /\ k - 1 < e + (Len(features[i].patches[j][2]) \div 2)

\* The byte injection j of feature i puts at position k; 256, no byte, when the
\* payload is not hexadecimal there.
PayloadByteAt(i, j, k) ==
    LET e == EffectiveAddress(features[i].patches[j][1], TargetSize)
        h == features[i].patches[j][2]
        n == k - 1 - e
    IN  IF IsHexDigit(h[2 * n + 1]) /\ IsHexDigit(h[2 * n + 2])
        THEN 16 * HexValue(h[2 * n + 1]) + HexValue(h[2 * n + 2])
        ELSE 256

\* (i1, j1) comes before (i2, j2): catalog position first, declaration position next.
OrderedBefore(p, q) == p[1] < q[1] \/ (p[1] = q[1] /\ p[2] < q[2])

\* What byte k must be by now: the payload byte of the last applied injection
\* that covers it, or the byte of the zero-padded source image.
ExpectedByte(k) ==
    LET positions == UNION {{<<i, j>> : j \in 1..Len(features[i].patches)} :
                               i \in 1..Len(features)}
        covering == {p \in positions :
                        /\ AppliedBefore(p[1], p[2])
                        /\ CoversAt(p[1], p[2], k)}
    IN  IF covering = {}
        THEN Padded(exe_buffer)[k]
        ELSE LET last == CHOOSE p \in covering : \A q \in covering : q = p \/ OrderedBefore(q, p)
             IN  PayloadByteAt(last[1], last[2], k)

\* C11: at every step of the loop, and in the buffer returned, each byte is the
\* payload byte of the last injection covering it among those of enabled
\* features that come before the loop's position in (catalog position,
\* declaration position) order, or the zero-padded source byte when there is
\* none; a patch is only ever applied for an enabled feature.
C11_LastInjectionWins ==
    /\ InBody => \A k \in 1..TargetSize : bigger_buffer[k] = ExpectedByte(k)
    /\ pc = "done" => result.buffer = bigger_buffer /\ fi = Len(features) + 1
    /\ pc \in {"injection", "wrap", "apply"} => enabled(features[fi])

\* C11's case: a returned byte is covered by two injections with different
\* bytes and holds the later one's.
C11_Witness ==
    /\ pc = "done"
    /\ \E k \in 1..TargetSize :
        \E i1 \in 1..Len(features), i2 \in 1..Len(features) :
          \E j1 \in 1..Len(features[i1].patches), j2 \in 1..Len(features[i2].patches) :
            /\ OrderedBefore(<<i1, j1>>, <<i2, j2>>)
            /\ enabled(features[i1]) /\ enabled(features[i2])
            /\ CoversAt(i1, j1, k) /\ CoversAt(i2, j2, k)
            /\ PayloadByteAt(i1, j1, k) # PayloadByteAt(i2, j2, k)
            /\ result.buffer[k] = PayloadByteAt(i2, j2, k)

=============================================================================
